---- MODULE Spec2Model ----
(***************************************************************************)
(* StopZoomingDammit (src/zoom.c): the per-frame camera arbitration of the *)
(* X-Plane plugin.  The state is the four file-scope statics of zoom.c,    *)
(* the host-side facts the callbacks read (the clock, the view_is_external *)
(* dataref, whether the camera control callback is installed) and the      *)
(* observable outcome of the last callback (return value, camera buffer).  *)
(*                                                                         *)
(* Times are microseconds, as returned by microclock().  Zoom values are   *)
(* tenths (1.0 is 10); positions and angles are integers, and the frame    *)
(* interval is drawn from even values so that 0.5 * a * POW2(intval) is    *)
(* exact.  The initial state is the loaded plugin before its first         *)
(* XPluginEnable: statics at their initialisers, nothing registered.       *)
(***************************************************************************)
EXTENDS Integers, FiniteSets, Sequences, TLC

VARIABLES
    allow_zoom,     \* static bool_t allow_zoom       (holdActive)
    allow_zoom_t,   \* static uint64_t allow_zoom_t   (deadline, 0 = none)
    cam_ctl,        \* static bool_t cam_ctl          (AuthorityState.held)
    zoom_tgt,       \* static double zoom_tgt         (ZoomTarget)
    variant,        \* which of the three cam_ctl_cb bodies is compiled in
    now,            \* host clock, the value microclock() returns
    view_is_ext,    \* host dataref sim/graphics/view/view_is_external
    installed,      \* host: cam_ctl_cb is the installed camera controller
    ctl_call,       \* XPLMControlCamera call made in the last step (0: none)
    pose,           \* *pos as the callback of the last step left it, if any
    ret,            \* return value of the last callback
    last,           \* the last callback run and the arguments it got
    plugin,         \* host: "disabled", "enabled", or "aborted" (process gone)
    hooks,          \* host: the callbacks and command handlers registered
    cmds,           \* static struct cmds: the two XPLMCommandRef handles
    hist            \* history of the run, read by the properties only

statics == <<allow_zoom, allow_zoom_t, cam_ctl, zoom_tgt>>
host    == <<now, view_is_ext, installed>>
life    == <<plugin, hooks, cmds>>
vars    == <<allow_zoom, allow_zoom_t, cam_ctl, zoom_tgt, variant, now,
             view_is_ext, installed, ctl_call, pose, ret, last,
             plugin, hooks, cmds, hist>>

----------------------------------------------------------------------------
(* Program constants *)

ZOOM_REL_INH_KEY_T == 500000
ZOOM_REL_CMD_T == 550000
ZOOM_REL_QUICK_LOOK_T == 1250000
InitZoom == 10

xplm_CommandBegin == 0
xplm_CommandContinue == 1
xplm_CommandEnd == 2
Phases == {xplm_CommandBegin, xplm_CommandContinue, xplm_CommandEnd}

xplm_ControlCameraUntilViewChanges == 1
xplm_ControlCameraForever == 2

\* cmds.allow_zoom_hold, cmds.allow_zoom_tog and the bound sim commands
allow_zoom_hold == "stopzooming/allow_zoom_hold"
allow_zoom_tog == "stopzooming/allow_zoom_toggle"
CustomCmds == {allow_zoom_hold, allow_zoom_tog}
NULL == "NULL"
ZoomCmds == {"sim/general/zoom_in", "sim/general/zoom_out_slow"}
QuickLookCmds == {"sim/view/quick_look_0", "sim/view/quick_look_19"}

Variants == {1, 2, 3}

----------------------------------------------------------------------------
(* Bounds *)

MaxNow == 800000
Steps == {250000, 300000}
MaxNowLong == 1300000
StepsLong == {300000, 1000000}
Zooms == {7, 10, 13}
MaxFrames == 2

NoPose == [x |-> 0, y |-> 0, z |-> 0, roll |-> 0, pitch |-> 0,
           heading |-> 0, zoom |-> 0]
\* what the host's camera is at when XPLMReadCameraPosition reads it
Cameras == {[x |-> 100, y |-> 200, z |-> 300, roll |-> 10, pitch |-> 20,
             heading |-> 30, zoom |-> zm] : zm \in Zooms}
\* what the buffer handed to the callback holds before it is filled
Buffers == {[x |-> 1, y |-> 2, z |-> 3, roll |-> 4, pitch |-> 5,
             heading |-> 6, zoom |-> 13]}
\* the kinematic datarefs read in the inhibit branch of variant 1
NoDrs == [frame_intval |-> 0, local_vx |-> 0, local_vy |-> 0, local_vz |-> 0,
          local_ax |-> 0, local_ay |-> 0, local_az |-> 0,
          P |-> 0, Q |-> 0, R |-> 0]
Datarefs == {[NoDrs EXCEPT !.local_vx = 1, !.local_vy = 2, !.local_vz = 3,
                           !.local_ax = 4, !.local_ay = 5, !.local_az = 6,
                           !.P = 7, !.Q = 8, !.R = 9],
             [frame_intval |-> 2, local_vx |-> 1, local_vy |-> 2,
              local_vz |-> 3, local_ax |-> 4, local_ay |-> 5, local_az |-> 6,
              P |-> 7, Q |-> 8, R |-> 9]}

----------------------------------------------------------------------------
(* Helpers *)

microclock == now

POW2(x) == x * x

\* mutant: the timed deadline is not consulted
Permitted_HoldOnly(az, azt, t) == az

\* mutant: the frame at the deadline itself still counts as inside it
Permitted_Inclusive(az, azt, t) == az \/ (azt # 0 /\ t <= azt)

\* the learning condition of cam_ctl_cb
Permitted(az, azt, t) == az \/ (azt # 0 /\ t < azt)

\* "Adjust camera to next frame position"
Extrapolate(pos, d) ==
    [pos EXCEPT
        !.x = @ + d.local_vx * d.frame_intval
                + (d.local_ax * POW2(d.frame_intval)) \div 2,
        !.y = @ + d.local_vy * d.frame_intval
                + (d.local_ay * POW2(d.frame_intval)) \div 2,
        !.z = @ + d.local_vz * d.frame_intval
                + (d.local_az * POW2(d.frame_intval)) \div 2,
        !.roll = @ + d.P * d.frame_intval,
        !.pitch = @ + d.Q * d.frame_intval,
        !.heading = @ + d.R * d.frame_intval]

\* mutant: the zoom field is left as X-Plane proposed it
Inhibit_KeepZoom(pos, d) ==
    IF variant = 1 THEN Extrapolate(pos, d) ELSE pos

\* the body of the inhibit branch: what *pos holds afterwards
Inhibit(pos, d) ==
    IF variant = 1
    THEN Extrapolate([pos EXCEPT !.zoom = zoom_tgt], d)
    ELSE [pos EXCEPT !.zoom = zoom_tgt]

NoCall == [op |-> "none", losing_ctl |-> FALSE, buf |-> NoPose,
           camera |-> NoPose, drs |-> NoDrs, ref |-> "", phase |-> 0,
           view |-> FALSE, created |-> <<NULL, NULL>>,
           pre |-> [allow_zoom |-> FALSE, allow_zoom_t |-> 0,
                    cam_ctl |-> FALSE, zoom_tgt |-> 0, installed |-> FALSE,
                    over |-> 0]]

\* the statics as a callback finds them on entry, and what had been
\* recorded as overridden just before
Entry == [allow_zoom |-> allow_zoom, allow_zoom_t |-> allow_zoom_t,
          cam_ctl |-> cam_ctl, zoom_tgt |-> zoom_tgt,
          installed |-> installed, over |-> hist.over]

----------------------------------------------------------------------------
(* The callbacks *)

\* mutant: a plain else instead of else-if
ZoomChanged_Always(z) == TRUE

\* the test that guards the inhibit branch
ZoomChanged(z) == z # zoom_tgt

\* mutant: the inhibit branch adopts the zoom it overrides
Arbitrate_LearnOnInhibit(camera, d) ==
    IF Permitted(allow_zoom, allow_zoom_t, microclock)
    THEN /\ zoom_tgt' = camera.zoom
         /\ cam_ctl' = FALSE
         /\ ret' = 0
         /\ pose' = camera
         /\ UNCHANGED <<allow_zoom, allow_zoom_t>>
    ELSE IF ZoomChanged(camera.zoom)
    THEN /\ pose' = Inhibit(camera, d)
         /\ zoom_tgt' = camera.zoom
         /\ allow_zoom_t' = 0
         /\ ret' = 1
         /\ UNCHANGED <<allow_zoom, cam_ctl>>
    ELSE /\ cam_ctl' = FALSE
         /\ ret' = 0
         /\ pose' = camera
         /\ UNCHANGED <<allow_zoom, allow_zoom_t, zoom_tgt>>

\* mutant: the camera is kept while a changing zoom is being learned
Arbitrate_KeepWhileLearning(camera, d) ==
    IF Permitted(allow_zoom, allow_zoom_t, microclock)
    THEN /\ zoom_tgt' = camera.zoom
         /\ pose' = camera
         /\ IF camera.zoom # zoom_tgt
            THEN ret' = 1 /\ UNCHANGED cam_ctl
            ELSE ret' = 0 /\ cam_ctl' = FALSE
         /\ UNCHANGED <<allow_zoom, allow_zoom_t>>
    ELSE IF ZoomChanged(camera.zoom)
    THEN /\ pose' = Inhibit(camera, d)
         /\ allow_zoom_t' = 0
         /\ ret' = 1
         /\ UNCHANGED <<allow_zoom, cam_ctl, zoom_tgt>>
    ELSE /\ cam_ctl' = FALSE
         /\ ret' = 0
         /\ pose' = camera
         /\ UNCHANGED <<allow_zoom, allow_zoom_t, zoom_tgt>>

\* cam_ctl_cb from XPLMReadCameraPosition on: camera is what the read
\* stores into *pos, d the values dr_getf returns
Arbitrate(camera, d) ==
    IF Permitted(allow_zoom, allow_zoom_t, microclock)
    THEN /\ zoom_tgt' = camera.zoom
         /\ cam_ctl' = FALSE
         /\ ret' = 0
         /\ pose' = camera
         /\ UNCHANGED <<allow_zoom, allow_zoom_t>>
    ELSE IF ZoomChanged(camera.zoom)
    THEN /\ pose' = Inhibit(camera, d)
         /\ allow_zoom_t' = 0
         /\ ret' = 1
         /\ UNCHANGED <<allow_zoom, cam_ctl, zoom_tgt>>
    ELSE /\ cam_ctl' = FALSE
         /\ ret' = 0
         /\ pose' = camera
         /\ UNCHANGED <<allow_zoom, allow_zoom_t, zoom_tgt>>

\* mutant: losing_ctl is not looked at
cam_ctl_cb_IgnoreLosing(pos, losing_ctl, camera, d) ==
    /\ Arbitrate(camera, d)
    /\ ctl_call' = 0

\* mutant: held is kept when the host takes the camera away
cam_ctl_cb_KeepsHeld(pos, losing_ctl, camera, d) ==
    /\ IF losing_ctl
       THEN /\ ret' = 0
            /\ pose' = pos
            /\ UNCHANGED <<allow_zoom, allow_zoom_t, cam_ctl, zoom_tgt>>
       ELSE Arbitrate(camera, d)
    /\ ctl_call' = 0

\* pos is the buffer the host passes
cam_ctl_cb(pos, losing_ctl, camera, d) ==
    /\ IF losing_ctl
       THEN /\ cam_ctl' = FALSE
            /\ ret' = 0
            /\ pose' = pos
            /\ UNCHANGED <<allow_zoom, allow_zoom_t, zoom_tgt>>
       ELSE Arbitrate(camera, d)
    /\ ctl_call' = 0

\* mutant: the test of the view is inverted
draw_cb_ExternalOnly ==
    /\ IF view_is_ext /\ ~cam_ctl
       THEN /\ installed' = TRUE
            /\ ctl_call' = xplm_ControlCameraUntilViewChanges
            /\ cam_ctl' = TRUE
       ELSE /\ ctl_call' = 0
            /\ UNCHANGED <<installed, cam_ctl>>
    /\ ret' = 1
    /\ pose' = NoPose
    /\ UNCHANGED <<allow_zoom, allow_zoom_t, zoom_tgt>>

\* mutant: the external view is not excluded
draw_cb_AnyView ==
    /\ IF ~cam_ctl
       THEN /\ installed' = TRUE
            /\ ctl_call' = xplm_ControlCameraUntilViewChanges
            /\ cam_ctl' = TRUE
       ELSE /\ ctl_call' = 0
            /\ UNCHANGED <<installed, cam_ctl>>
    /\ ret' = 1
    /\ pose' = NoPose
    /\ UNCHANGED <<allow_zoom, allow_zoom_t, zoom_tgt>>

draw_cb ==
    /\ IF ~view_is_ext /\ ~cam_ctl
       THEN /\ installed' = TRUE
            /\ ctl_call' = xplm_ControlCameraUntilViewChanges
            /\ cam_ctl' = TRUE
       ELSE /\ ctl_call' = 0
            /\ UNCHANGED <<installed, cam_ctl>>
    /\ ret' = 1
    /\ pose' = NoPose
    /\ UNCHANGED <<allow_zoom, allow_zoom_t, zoom_tgt>>

\* mutant: the grace of the zoom commands is used
quick_look_cmd_cb_CmdGrace(ref, phase) ==
    /\ allow_zoom_t' = microclock + ZOOM_REL_CMD_T
    /\ ret' = 1
    /\ ctl_call' = 0
    /\ pose' = NoPose
    /\ UNCHANGED <<allow_zoom, cam_ctl, zoom_tgt>>

quick_look_cmd_cb(ref, phase) ==
    /\ allow_zoom_t' = microclock + ZOOM_REL_QUICK_LOOK_T
    /\ ret' = 1
    /\ ctl_call' = 0
    /\ pose' = NoPose
    /\ UNCHANGED <<allow_zoom, cam_ctl, zoom_tgt>>

\* mutant: a pending deadline is pushed out instead of replaced
zoom_cmd_cb_Accumulate(ref, phase) ==
    /\ allow_zoom_t' = IF allow_zoom_t > microclock
                       THEN allow_zoom_t + ZOOM_REL_CMD_T
                       ELSE microclock + ZOOM_REL_CMD_T
    /\ ret' = 1
    /\ ctl_call' = 0
    /\ pose' = NoPose
    /\ UNCHANGED <<allow_zoom, cam_ctl, zoom_tgt>>

\* mutant: the command is ignored while zooming is allowed anyway
zoom_cmd_cb_UnlessHeld(ref, phase) ==
    /\ IF allow_zoom
       THEN UNCHANGED allow_zoom_t
       ELSE allow_zoom_t' = microclock + ZOOM_REL_CMD_T
    /\ ret' = 1
    /\ ctl_call' = 0
    /\ pose' = NoPose
    /\ UNCHANGED <<allow_zoom, cam_ctl, zoom_tgt>>

\* mutant: a zoom command also gives the camera back
zoom_cmd_cb_DropsControl(ref, phase) ==
    /\ allow_zoom_t' = microclock + ZOOM_REL_CMD_T
    /\ cam_ctl' = FALSE
    /\ ret' = 1
    /\ ctl_call' = 0
    /\ pose' = NoPose
    /\ UNCHANGED <<allow_zoom, zoom_tgt>>

zoom_cmd_cb(ref, phase) ==
    /\ allow_zoom_t' = microclock + ZOOM_REL_CMD_T
    /\ ret' = 1
    /\ ctl_call' = 0
    /\ pose' = NoPose
    /\ UNCHANGED <<allow_zoom, cam_ctl, zoom_tgt>>

\* mutant: only xplm_CommandBegin counts as held
AllowZoomHold_BeginOnly(phase) ==
    IF phase = xplm_CommandBegin
    THEN /\ allow_zoom' = TRUE
         /\ UNCHANGED allow_zoom_t
    ELSE /\ allow_zoom' = FALSE
         /\ allow_zoom_t' = microclock + ZOOM_REL_INH_KEY_T

\* mutant: the release arms the grace of the quick-look commands
AllowZoomHold_LongGrace(phase) ==
    IF phase = xplm_CommandBegin \/ phase = xplm_CommandContinue
    THEN /\ allow_zoom' = TRUE
         /\ UNCHANGED allow_zoom_t
    ELSE /\ allow_zoom' = FALSE
         /\ allow_zoom_t' = microclock + ZOOM_REL_QUICK_LOOK_T

\* the allow_zoom_hold branch of allow_zoom_cb
AllowZoomHold(phase) ==
    IF phase = xplm_CommandBegin \/ phase = xplm_CommandContinue
    THEN /\ allow_zoom' = TRUE
         /\ UNCHANGED allow_zoom_t
    ELSE /\ allow_zoom' = FALSE
         /\ allow_zoom_t' = microclock + ZOOM_REL_INH_KEY_T

\* mutant: the grace period is armed on the wrong edge
AllowZoomToggle_WrongEdge(phase) ==
    IF phase = xplm_CommandBegin
    THEN /\ allow_zoom' = ~allow_zoom
         /\ IF allow_zoom'
            THEN allow_zoom_t' = microclock + ZOOM_REL_INH_KEY_T
            ELSE UNCHANGED allow_zoom_t
    ELSE UNCHANGED <<allow_zoom, allow_zoom_t>>

\* the allow_zoom_tog branch of allow_zoom_cb
AllowZoomToggle(phase) ==
    IF phase = xplm_CommandBegin
    THEN /\ allow_zoom' = ~allow_zoom
         /\ IF ~allow_zoom'
            THEN allow_zoom_t' = microclock + ZOOM_REL_INH_KEY_T
            ELSE UNCHANGED allow_zoom_t
    ELSE UNCHANGED <<allow_zoom, allow_zoom_t>>

allow_zoom_cb(ref, phase) ==
    /\ IF ref = cmds.allow_zoom_hold
       THEN AllowZoomHold(phase)
       ELSE IF ref = cmds.allow_zoom_tog
       THEN AllowZoomToggle(phase)
       ELSE UNCHANGED <<allow_zoom, allow_zoom_t>>
    /\ ret' = 1
    /\ ctl_call' = 0
    /\ pose' = NoPose
    /\ UNCHANGED <<cam_ctl, zoom_tgt>>

----------------------------------------------------------------------------
(* The callbacks once more, as functions from the statics a run has to the *)
(* statics it has afterwards, so that the run of another variant, or of a  *)
(* changed program, can be carried along with the run of the program.  A   *)
(* run is a record of the four statics, the value the callback returned    *)
(* and what *pos holds after it.                                            *)

Fresh == [allow_zoom |-> FALSE, allow_zoom_t |-> 0, cam_ctl |-> FALSE,
          zoom_tgt |-> InitZoom, ret |-> 0, pose |-> NoPose]

\* a step that calls nothing
Idle(st) == [st EXCEPT !.ret = 0, !.pose = NoPose]

\* mutant: the extended variant leaves the zoom as proposed
InhibitAs_ExtendedKeepsZoom(v, tgt, pos, d) ==
    IF v = 1
    THEN Extrapolate(pos, d)
    ELSE [pos EXCEPT !.zoom = tgt]

\* the inhibit branch of variant v
InhibitAs(v, tgt, pos, d) ==
    IF v = 1
    THEN Extrapolate([pos EXCEPT !.zoom = tgt], d)
    ELSE [pos EXCEPT !.zoom = tgt]

\* cam_ctl_cb of variant v; clears says whether the inhibit branch has
\* its allow_zoom_t = 0
cam_ctl_cb_of(v, clears, st, pos, losing_ctl, camera, d) ==
    IF losing_ctl
    THEN [st EXCEPT !.cam_ctl = FALSE, !.ret = 0, !.pose = pos]
    ELSE IF st.allow_zoom
            \/ (st.allow_zoom_t # 0 /\ microclock < st.allow_zoom_t)
    THEN [st EXCEPT !.zoom_tgt = camera.zoom, !.cam_ctl = FALSE,
                    !.ret = 0, !.pose = camera]
    ELSE IF camera.zoom # st.zoom_tgt
    THEN [st EXCEPT !.pose = InhibitAs(v, st.zoom_tgt, camera, d),
                    !.allow_zoom_t = IF clears THEN 0 ELSE @,
                    !.ret = 1]
    ELSE [st EXCEPT !.cam_ctl = FALSE, !.ret = 0, !.pose = camera]

draw_cb_of(st) ==
    [st EXCEPT !.cam_ctl = IF ~view_is_ext /\ ~@ THEN TRUE ELSE @,
               !.ret = 1, !.pose = NoPose]

quick_look_cmd_cb_of(st) ==
    [st EXCEPT !.allow_zoom_t = microclock + ZOOM_REL_QUICK_LOOK_T,
               !.ret = 1, !.pose = NoPose]

zoom_cmd_cb_of(st) ==
    [st EXCEPT !.allow_zoom_t = microclock + ZOOM_REL_CMD_T,
               !.ret = 1, !.pose = NoPose]

allow_zoom_cb_of(st, ref, phase) ==
    LET done == [st EXCEPT !.ret = 1, !.pose = NoPose]
    IN  IF ref = cmds.allow_zoom_hold
        THEN IF phase = xplm_CommandBegin \/ phase = xplm_CommandContinue
             THEN [done EXCEPT !.allow_zoom = TRUE]
             ELSE [done EXCEPT
                      !.allow_zoom = FALSE,
                      !.allow_zoom_t = microclock + ZOOM_REL_INH_KEY_T]
        ELSE IF ref = cmds.allow_zoom_tog /\ phase = xplm_CommandBegin
        THEN [done EXCEPT
                 !.allow_zoom = ~@,
                 !.allow_zoom_t = IF st.allow_zoom
                                  THEN microclock + ZOOM_REL_INH_KEY_T
                                  ELSE @]
        ELSE done

----------------------------------------------------------------------------
\* mutant: the check is compiled out, as an ASSERT is in a release build
VERIFY_Off(c) == TRUE

\* VERIFY(c): execution goes on only when c holds, else the process aborts
VERIFY(c) == c

\* what XPluginEnable has registered when it reaches the first VERIFY
EarlyHooks == {"draw_cb"} \cup QuickLookCmds \cup ZoomCmds

\* hold and tog are what the two XPLMCreateCommand calls return
XPluginEnable(hold, tog) ==
    /\ IF ~VERIFY(hold # NULL)
       THEN /\ plugin' = "aborted"
            /\ hooks' = hooks \cup EarlyHooks
            /\ cmds' = [cmds EXCEPT !.allow_zoom_hold = hold]
            /\ UNCHANGED ret
       ELSE IF ~VERIFY(tog # NULL)
       THEN /\ plugin' = "aborted"
            /\ hooks' = hooks \cup EarlyHooks \cup ({hold} \ {NULL})
            /\ cmds' = [allow_zoom_hold |-> hold, allow_zoom_tog |-> tog]
            /\ UNCHANGED ret
       ELSE /\ plugin' = "enabled"
            /\ hooks' = hooks \cup EarlyHooks \cup ({hold, tog} \ {NULL})
            /\ cmds' = [allow_zoom_hold |-> hold, allow_zoom_tog |-> tog]
            /\ ret' = 1
    /\ ctl_call' = 0
    /\ pose' = NoPose
    /\ UNCHANGED statics

XPluginDisable ==
    /\ plugin' = "disabled"
    /\ hooks' = hooks \ (EarlyHooks
                         \cup {cmds.allow_zoom_hold, cmds.allow_zoom_tog})
    /\ ctl_call' = 0
    /\ pose' = NoPose
    /\ UNCHANGED <<statics, ret, cmds>>

----------------------------------------------------------------------------
(* The host: what it calls and when *)

\* History.  mode says what a specification records ("off": nothing).
\* In mode "events": kind/t are the last command event when it was a
\* quick-look ("ql") or the end of a hold ("release"), and its time; lt/lz
\* are the time and zoom of the last learning call since a "ql" event; over
\* is the zoom proposed to the last camera call when that call overrode it
\* and only draw_cb and the clock have run since.  In mode "promise": until
\* is the latest end of the grace of any zoom or quick-look command so far.
NoHist == [mode |-> "off", kind |-> "none", t |-> 0, lt |-> 0, lz |-> 0,
           until |-> 0, over |-> 0, learned |-> {}, tog |-> FALSE,
           sh |-> [v \in Variants |-> Fresh],
           phase |-> "cam", frames |-> 0, ran |-> FALSE]

Later(a, b) == IF a >= b THEN a ELSE b

\* after a command event of the given kind that promises the given grace
AfterEvent(kind, grace) ==
    CASE hist.mode = "events" ->
           [hist EXCEPT !.kind = kind,
                        !.t = IF kind = "none" THEN 0 ELSE now,
                        !.lt = 0, !.lz = 0, !.over = 0]
      [] hist.mode = "promise" /\ grace # 0 ->
           [hist EXCEPT !.until = Later(@, now + grace)]
      [] OTHER -> hist

\* after a frame call that was handed the zoom z and returned r
AfterFrame(z, r) ==
    LET learns == allow_zoom \/ (allow_zoom_t # 0 /\ now < allow_zoom_t)
    IN  IF hist.mode = "events"
        THEN [hist EXCEPT
                 !.lt = IF hist.kind = "ql" /\ learns THEN now ELSE @,
                 !.lz = IF hist.kind = "ql" /\ learns THEN z ELSE @,
                 !.over = IF r = 1 THEN z ELSE 0]
        ELSE IF hist.mode = "learn" /\ learns
        THEN [hist EXCEPT !.learned = @ \cup {z}]
        ELSE IF hist.mode = "frames"
        THEN [hist EXCEPT !.phase = "draw", !.ran = TRUE]
        ELSE hist

\* after draw_cb, which ends a frame; frames counts the frames drawn, up
\* to MaxFrames
AfterDraw ==
    IF hist.mode = "frames"
    THEN [hist EXCEPT !.phase = "cam",
                      !.frames = IF @ < MaxFrames THEN @ + 1 ELSE @]
    ELSE hist

\* after any other step that is not draw_cb or the clock
AfterOther == [hist EXCEPT !.over = 0]

\* the history h with the runs carried along replaced by runs: one run
\* for each variant, and in mode "noclear" without allow_zoom_t = 0
Clears == hist.mode # "noclear"
Track(h, runs) ==
    IF hist.mode \in {"variants", "noclear"}
    THEN [h EXCEPT !.sh = runs]
    ELSE h

\* after allow_zoom_cb: what the last begin of allow_zoom_toggle left
\* zooming as
AfterAllowZoom(ref, phase) ==
    IF ref = allow_zoom_tog /\ phase = xplm_CommandBegin
    THEN [hist EXCEPT !.tog = allow_zoom']
    ELSE hist

\* the loaded plugin, with the history in the given mode
Loaded(mode) ==
    /\ allow_zoom = FALSE
    /\ allow_zoom_t = 0
    /\ cam_ctl = FALSE
    /\ zoom_tgt = InitZoom
    /\ variant \in Variants
    /\ now = 0
    /\ view_is_ext \in BOOLEAN
    /\ installed = FALSE
    /\ ctl_call = 0
    /\ pose = NoPose
    /\ ret = 0
    /\ last = NoCall
    /\ plugin = "disabled"
    /\ hooks = {}
    /\ cmds = [allow_zoom_hold |-> NULL, allow_zoom_tog |-> NULL]
    /\ hist = [NoHist EXCEPT !.mode = mode]

Init == Loaded("off")

\* the host process is alive
Running == plugin # "aborted"

\* the host enables the plugin; XPLMCreateCommand may fail
Enable ==
    /\ plugin = "disabled"
    /\ \E hold \in {allow_zoom_hold, NULL}, tog \in {allow_zoom_tog, NULL} :
          /\ XPluginEnable(hold, tog)
          /\ last' = [NoCall EXCEPT !.op = "XPluginEnable", !.pre = Entry,
                                    !.created = <<hold, tog>>]
    /\ hist' = Track(AfterOther, [v \in Variants |-> Idle(hist.sh[v])])
    /\ UNCHANGED <<variant, host>>

Disable ==
    /\ plugin = "enabled"
    /\ XPluginDisable
    /\ last' = [NoCall EXCEPT !.op = "XPluginDisable", !.pre = Entry]
    /\ hist' = Track(AfterOther, [v \in Variants |-> Idle(hist.sh[v])])
    /\ UNCHANGED <<variant, host>>

\* the host runs the installed camera controller for a frame and keeps it
\* installed exactly when it returns 1
CameraFrame ==
    /\ Running
    /\ installed
    /\ \E pos \in Buffers, camera \in Cameras, d \in Datarefs :
          /\ cam_ctl_cb(pos, FALSE, camera, d)
          /\ last' = [NoCall EXCEPT !.op = "cam_ctl_cb", !.pre = Entry,
                                    !.buf = pos,
                                    !.camera = camera, !.drs = d]
          /\ hist' = Track(AfterFrame(camera.zoom, ret'),
                           [v \in Variants |->
                              cam_ctl_cb_of(v, Clears, hist.sh[v], pos,
                                            FALSE, camera, d)])
    /\ installed' = (ret' = 1)
    /\ UNCHANGED <<variant, now, view_is_ext, life>>

\* the view changes (or the camera is taken away) while the controller is
\* installed: the host tells it so and removes it; the callback returns
\* before XPLMReadCameraPosition and dr_getf, so nothing is read for it
LoseControl ==
    /\ Running
    /\ installed
    /\ \E pos \in Buffers :
          /\ cam_ctl_cb(pos, TRUE, NoPose, NoDrs)
          /\ last' = [NoCall EXCEPT !.op = "cam_ctl_cb", !.pre = Entry,
                                    !.buf = pos,
                                    !.losing_ctl = TRUE]
          /\ hist' = Track(AfterOther,
                           [v \in Variants |->
                              cam_ctl_cb_of(v, Clears, hist.sh[v], pos,
                                            TRUE, NoPose, NoDrs)])
    /\ installed' = FALSE
    /\ view_is_ext' \in BOOLEAN
    /\ UNCHANGED <<variant, now, life>>

\* the view changes while nothing is installed
ViewChange ==
    /\ Running
    /\ ~installed
    /\ view_is_ext' = ~view_is_ext
    /\ last' = [NoCall EXCEPT !.op = "view"]
    /\ hist' = Track(AfterOther, [v \in Variants |-> Idle(hist.sh[v])])
    /\ ctl_call' = 0
    /\ pose' = NoPose
    /\ UNCHANGED <<statics, variant, now, installed, ret, life>>

DrawFrame ==
    /\ Running
    /\ "draw_cb" \in hooks
    /\ draw_cb
    /\ last' = [NoCall EXCEPT !.op = "draw_cb", !.pre = Entry,
                                !.view = view_is_ext]
    /\ hist' = Track(AfterDraw, [v \in Variants |-> draw_cb_of(hist.sh[v])])
    /\ UNCHANGED <<variant, now, view_is_ext, life>>

QuickLookCmd ==
    /\ Running
    /\ \E ref \in QuickLookCmds \cap hooks, phase \in Phases :
          /\ quick_look_cmd_cb(ref, phase)
          /\ last' = [NoCall EXCEPT !.op = "quick_look_cmd_cb", !.pre = Entry,
                                    !.ref = ref,
                                    !.phase = phase]
    /\ hist' = Track(AfterEvent("ql", 1250000),
                     [v \in Variants |-> quick_look_cmd_cb_of(hist.sh[v])])
    /\ UNCHANGED <<variant, host, life>>

ZoomCmd ==
    /\ Running
    /\ \E ref \in ZoomCmds \cap hooks, phase \in Phases :
          /\ zoom_cmd_cb(ref, phase)
          /\ last' = [NoCall EXCEPT !.op = "zoom_cmd_cb", !.pre = Entry,
                                    !.ref = ref,
                                    !.phase = phase]
    /\ hist' = Track(AfterEvent("none", 550000),
                     [v \in Variants |-> zoom_cmd_cb_of(hist.sh[v])])
    /\ UNCHANGED <<variant, host, life>>

AllowZoomCmd ==
    /\ Running
    /\ \E ref \in CustomCmds \cap hooks, phase \in Phases :
          /\ allow_zoom_cb(ref, phase)
          /\ last' = [NoCall EXCEPT !.op = "allow_zoom_cb", !.pre = Entry,
                                    !.ref = ref,
                                    !.phase = phase]
          /\ hist' = IF hist.mode = "toggle"
                     THEN AfterAllowZoom(ref, phase)
                     ELSE IF hist.mode \in {"variants", "noclear"}
                     THEN Track(hist,
                                [v \in Variants |->
                                   allow_zoom_cb_of(hist.sh[v], ref, phase)])
                     ELSE IF ref = allow_zoom_hold
                     THEN AfterEvent(IF phase = xplm_CommandEnd
                                     THEN "release" ELSE "none", 0)
                     ELSE IF phase = xplm_CommandBegin
                     THEN AfterEvent("none", 0)
                     ELSE AfterOther
    /\ UNCHANGED <<variant, host, life>>

\* mutant: the clock may be set back
Tick_SetBack ==
    /\ Running
    /\ \/ \E d \in Steps :
             /\ now + d <= MaxNow
             /\ now' = now + d
       \/ now' = 0
    /\ last' = [NoCall EXCEPT !.op = "tick"]
    /\ hist' = Track(hist, [v \in Variants |-> Idle(hist.sh[v])])
    /\ ctl_call' = 0
    /\ pose' = NoPose
    /\ UNCHANGED <<statics, variant, view_is_ext, installed, ret, life>>

Tick ==
    /\ Running
    /\ \E d \in Steps :
          /\ now + d <= MaxNow
          /\ now' = now + d
    /\ last' = [NoCall EXCEPT !.op = "tick"]
    /\ hist' = Track(hist, [v \in Variants |-> Idle(hist.sh[v])])
    /\ ctl_call' = 0
    /\ pose' = NoPose
    /\ UNCHANGED <<statics, variant, view_is_ext, installed, ret, life>>

Next ==
    \/ Enable
    \/ Disable
    \/ CameraFrame
    \/ LoseControl
    \/ ViewChange
    \/ DrawFrame
    \/ QuickLookCmd
    \/ ZoomCmd
    \/ AllowZoomCmd
    \/ Tick

Spec == Init /\ [][Next]_vars

\* the same program with the history recorded
InitEvents == Loaded("events")
SpecEvents == InitEvents /\ [][Next]_vars

InitPromise == Loaded("promise")
SpecPromise == InitPromise /\ [][Next]_vars

InitVariants == Loaded("variants")
SpecVariants == InitVariants /\ [][Next]_vars

InitNoClear == Loaded("noclear")
SpecNoClear == InitNoClear /\ [][Next]_vars

InitToggle == Loaded("toggle")
SpecToggle == InitToggle /\ [][Next]_vars

InitLearn == Loaded("learn")
SpecLearn == InitLearn /\ [][Next]_vars

\* the same program on a clock that reaches past the quick-look grace
TickLong ==
    /\ Running
    /\ \E d \in StepsLong :
          /\ now + d <= MaxNowLong
          /\ now' = now + d
    /\ last' = [NoCall EXCEPT !.op = "tick"]
    /\ hist' = Track(hist, [v \in Variants |-> Idle(hist.sh[v])])
    /\ ctl_call' = 0
    /\ pose' = NoPose
    /\ UNCHANGED <<statics, variant, view_is_ext, installed, ret, life>>

NextLong ==
    \/ Enable
    \/ Disable
    \/ CameraFrame
    \/ LoseControl
    \/ ViewChange
    \/ DrawFrame
    \/ QuickLookCmd
    \/ ZoomCmd
    \/ AllowZoomCmd
    \/ TickLong

SpecLong == InitEvents /\ [][NextLong]_vars

\* The host as it runs frames: in every frame it first runs the camera
\* controller, if one is installed, and then the drawing callbacks; the
\* view stays as it is, commands and the clock come between frames.
InitFrames == Loaded("frames") /\ ~view_is_ext

BetweenFrames == hist.phase = "cam"

FrameCallback ==
    /\ hist.phase = "cam"
    /\ CameraFrame

FrameNoCallback ==
    /\ hist.phase = "cam"
    /\ plugin = "enabled"
    /\ ~installed
    /\ hist' = [hist EXCEPT !.phase = "draw", !.ran = FALSE]
    /\ last' = [NoCall EXCEPT !.op = "frame"]
    /\ ctl_call' = 0
    /\ pose' = NoPose
    /\ UNCHANGED <<statics, variant, host, ret, life>>

FrameGate ==
    /\ hist.phase = "draw"
    /\ DrawFrame

NextFrames ==
    \/ BetweenFrames /\ Enable
    \/ FrameCallback
    \/ FrameNoCallback
    \/ FrameGate
    \/ BetweenFrames /\ QuickLookCmd
    \/ BetweenFrames /\ ZoomCmd
    \/ BetweenFrames /\ AllowZoomCmd
    \/ BetweenFrames /\ Tick

SpecFrames == InitFrames /\ [][NextFrames]_vars

TypeOK ==
    /\ allow_zoom \in BOOLEAN
    /\ allow_zoom_t \in Nat
    /\ cam_ctl \in BOOLEAN
    /\ zoom_tgt \in Zooms
    /\ variant \in Variants
    /\ now \in 0..MaxNow
    /\ installed \in BOOLEAN
    /\ ret \in {0, 1}
    /\ plugin \in {"disabled", "enabled", "aborted"}
    /\ hooks \subseteq EarlyHooks \cup CustomCmds

----------------------------------------------------------------------------
(* Properties.  last.pre is the state the callback found, the variables    *)
(* are the state it left; callbacks do not move the clock, so now is the   *)
(* time of the call.                                                       *)

\* a camera callback invocation the host made for a frame
FrameCall == last.op = "cam_ctl_cb" /\ ~last.losing_ctl
LosingCall == last.op = "cam_ctl_cb" /\ last.losing_ctl

\* holdActive false and the deadline unset or reached
NoPermission ==
    /\ ~last.pre.allow_zoom
    /\ (last.pre.allow_zoom_t = 0 \/ now >= last.pre.allow_zoom_t)

\* holdActive true, or the deadline set and still ahead
Granted ==
    \/ last.pre.allow_zoom
    \/ (last.pre.allow_zoom_t # 0 /\ now < last.pre.allow_zoom_t)

\* C1 Suppression: a frame call without permission whose proposed zoom
\* differs from ZoomTarget leaves the pose's zoom at the old ZoomTarget,
\* keeps ZoomTarget, returns 1, keeps held true and clears the deadline.
C1_Suppression ==
    (FrameCall /\ NoPermission /\ last.camera.zoom # last.pre.zoom_tgt)
    => /\ pose.zoom = last.pre.zoom_tgt
       /\ zoom_tgt = last.pre.zoom_tgt
       /\ ret = 1
       /\ last.pre.cam_ctl
       /\ cam_ctl
       /\ allow_zoom_t = 0

C1_Witness ==
    /\ FrameCall
    /\ ~last.pre.allow_zoom
    /\ last.pre.allow_zoom_t # 0
    /\ now >= last.pre.allow_zoom_t
    /\ last.pre.zoom_tgt # InitZoom
    /\ last.camera.zoom # last.pre.zoom_tgt
    /\ pose.zoom = last.pre.zoom_tgt
    /\ ret = 1

\* C2 Learning: a frame call with permission makes ZoomTarget the proposed
\* zoom and leaves every field of the pose as the host proposed it.
C2_Learning ==
    (FrameCall /\ Granted)
    => /\ zoom_tgt = last.camera.zoom
       /\ pose = last.camera

C2_Witness ==
    /\ FrameCall
    /\ ~last.pre.allow_zoom
    /\ last.pre.allow_zoom_t # 0
    /\ now < last.pre.allow_zoom_t
    /\ last.camera.zoom # last.pre.zoom_tgt
    /\ zoom_tgt = last.camera.zoom
    /\ pose = last.camera

\* C3 Idempotent release: a frame call without permission whose proposed
\* zoom equals ZoomTarget returns 0, clears held and leaves ZoomTarget, the
\* pose, holdActive and the deadline as they were.
C3_IdempotentRelease ==
    (FrameCall /\ NoPermission /\ last.camera.zoom = last.pre.zoom_tgt)
    => /\ ret = 0
       /\ ~cam_ctl
       /\ zoom_tgt = last.pre.zoom_tgt
       /\ pose = last.camera
       /\ allow_zoom = last.pre.allow_zoom
       /\ allow_zoom_t = last.pre.allow_zoom_t

C3_Witness ==
    /\ FrameCall
    /\ ~last.pre.allow_zoom
    /\ last.pre.allow_zoom_t # 0
    /\ now >= last.pre.allow_zoom_t
    /\ last.pre.cam_ctl
    /\ last.camera.zoom = last.pre.zoom_tgt
    /\ ret = 0
    /\ ~cam_ctl
    /\ allow_zoom_t = last.pre.allow_zoom_t

\* C4 Permission predicate: a frame call that proposes a changed zoom is
\* treated as permitted (the zoom is learned, not overridden) exactly when
\* holdActive is true or the deadline is non-zero and now < deadline; with
\* holdActive true that is so for every deadline, and with holdActive false
\* a call at now = deadline is not permitted.
C4_PermissionPredicate ==
    (FrameCall /\ last.camera.zoom # last.pre.zoom_tgt)
    => /\ (zoom_tgt = last.camera.zoom /\ ret = 0) <=> Granted
       /\ (pose.zoom = last.pre.zoom_tgt /\ ret = 1) <=> ~Granted
       /\ last.pre.allow_zoom => zoom_tgt = last.camera.zoom
       /\ (~last.pre.allow_zoom /\ now = last.pre.allow_zoom_t)
            => zoom_tgt = last.pre.zoom_tgt

\* a changed zoom proposed in the frame at exactly the deadline, overridden
C4_Witness ==
    /\ FrameCall
    /\ ~last.pre.allow_zoom
    /\ last.pre.allow_zoom_t # 0
    /\ now = last.pre.allow_zoom_t
    /\ last.camera.zoom # last.pre.zoom_tgt
    /\ ret = 1

\* a deadline-setting event and its grace: any zoom or quick-look command,
\* the end of a hold, a toggle that switches off
Grace ==
    CASE last.op = "zoom_cmd_cb" -> 550000
      [] last.op = "quick_look_cmd_cb" -> 1250000
      [] last.op = "allow_zoom_cb" /\ last.ref = allow_zoom_hold
            /\ last.phase = xplm_CommandEnd -> 500000
      [] last.op = "allow_zoom_cb" /\ last.ref = allow_zoom_tog
            /\ last.phase = xplm_CommandBegin /\ last.pre.allow_zoom -> 500000
      [] OTHER -> 0

\* C5 Deadline overwritten, not accumulated: after a deadline-setting event
\* at time t with grace T the deadline is t + T whatever it was before; a
\* zoom command that finds the deadline of an earlier zoom command still
\* pending leaves t2 + 550 ms, not t1 + 2 * 550 ms.
C5_DeadlineOverwritten ==
    /\ Grace # 0 => allow_zoom_t = now + Grace
    /\ (last.op = "zoom_cmd_cb" /\ now < last.pre.allow_zoom_t)
         => /\ allow_zoom_t = now + 550000
            /\ allow_zoom_t # last.pre.allow_zoom_t + 550000

\* a second zoom command at t2 inside the window a first one opened at t1
C5_Witness ==
    /\ last.op = "zoom_cmd_cb"
    /\ last.pre.allow_zoom_t >= 550000
    /\ last.pre.allow_zoom_t - 550000 < now
    /\ now < last.pre.allow_zoom_t
    /\ allow_zoom_t = now + 550000

\* C6 Toggle: a begin-phase allow_zoom_toggle event flips holdActive; when
\* the result is false the deadline becomes now + 500 ms, when it is true
\* the deadline is left as it was.
C6_Toggle ==
    (last.op = "allow_zoom_cb" /\ last.ref = allow_zoom_tog
        /\ last.phase = xplm_CommandBegin)
    => /\ allow_zoom = ~last.pre.allow_zoom
       /\ ~allow_zoom => allow_zoom_t = now + 500000
       /\ allow_zoom => allow_zoom_t = last.pre.allow_zoom_t

\* toggled on over a pending deadline, which survives
C6_Witness ==
    /\ last.op = "allow_zoom_cb"
    /\ last.ref = allow_zoom_tog
    /\ last.phase = xplm_CommandBegin
    /\ allow_zoom
    /\ ~last.pre.allow_zoom
    /\ allow_zoom_t # 0
    /\ allow_zoom_t # now + 500000
    /\ allow_zoom_t = last.pre.allow_zoom_t

\* C7 Hold: an allow_zoom_hold event in phase begin or continue sets
\* holdActive and leaves the deadline; one in phase end clears holdActive
\* and sets the deadline to now + 500 ms, whatever they were before.
C7_Hold ==
    (last.op = "allow_zoom_cb" /\ last.ref = allow_zoom_hold)
    => /\ last.phase \in {xplm_CommandBegin, xplm_CommandContinue}
            => /\ allow_zoom
               /\ allow_zoom_t = last.pre.allow_zoom_t
       /\ last.phase = xplm_CommandEnd
            => /\ ~allow_zoom
               /\ allow_zoom_t = now + 500000

\* a continue event that finds holdActive false and a deadline pending
C7_Witness ==
    /\ last.op = "allow_zoom_cb"
    /\ last.ref = allow_zoom_hold
    /\ last.phase = xplm_CommandContinue
    /\ ~last.pre.allow_zoom
    /\ last.pre.allow_zoom_t # 0
    /\ allow_zoom
    /\ allow_zoom_t = last.pre.allow_zoom_t

\* C8 Passive commands: every zoom command event, in any phase, sets the
\* deadline to now + 550 ms and every quick-look event to now + 1250 ms,
\* holdActive true or not, and both leave holdActive, ZoomTarget and held.
C8_PassiveCommands ==
    /\ last.op = "zoom_cmd_cb" => allow_zoom_t = now + 550000
    /\ last.op = "quick_look_cmd_cb" => allow_zoom_t = now + 1250000
    /\ last.op \in {"zoom_cmd_cb", "quick_look_cmd_cb"}
         => /\ allow_zoom = last.pre.allow_zoom
            /\ zoom_tgt = last.pre.zoom_tgt
            /\ cam_ctl = last.pre.cam_ctl

\* a zoom command in the end phase while holdActive is true and held
C8_Witness ==
    /\ last.op = "zoom_cmd_cb"
    /\ last.phase = xplm_CommandEnd
    /\ last.pre.allow_zoom
    /\ last.pre.cam_ctl
    /\ last.pre.allow_zoom_t # now + 550000
    /\ allow_zoom_t = now + 550000

\* C9 Frame Gate: draw_cb installs the camera callback, for "until the view
\* changes", and sets held exactly when the view is not external and held
\* is false; otherwise it installs nothing and changes no state.
C9_FrameGate ==
    last.op = "draw_cb"
    => /\ allow_zoom = last.pre.allow_zoom
       /\ allow_zoom_t = last.pre.allow_zoom_t
       /\ zoom_tgt = last.pre.zoom_tgt
       /\ IF ~last.view /\ ~last.pre.cam_ctl
          THEN /\ ctl_call = xplm_ControlCameraUntilViewChanges
               /\ installed
               /\ cam_ctl
          ELSE /\ ctl_call = 0
               /\ installed = last.pre.installed
               /\ cam_ctl = last.pre.cam_ctl

\* a frame drawn in an external view with held false: nothing installed
C9_Witness ==
    /\ last.op = "draw_cb"
    /\ last.view
    /\ ~last.pre.cam_ctl
    /\ now > 0
    /\ ctl_call = 0
    /\ ~installed
    /\ ~cam_ctl

\* C10 Losing authority: a call with losing_ctl set clears held and returns
\* 0, leaves the buffer it was handed, ZoomTarget, holdActive and the
\* deadline alone, whatever the permission state; held is false after
\* every view change.
C10_LosingAuthority ==
    /\ LosingCall
         => /\ ~cam_ctl
            /\ ret = 0
            /\ pose = last.buf
            /\ zoom_tgt = last.pre.zoom_tgt
            /\ allow_zoom = last.pre.allow_zoom
            /\ allow_zoom_t = last.pre.allow_zoom_t
    /\ last.op = "view" => ~cam_ctl

\* control lost while permission was granted and held was true
C10_Witness ==
    /\ LosingCall
    /\ last.pre.cam_ctl
    /\ last.pre.allow_zoom_t # 0
    /\ now < last.pre.allow_zoom_t
    /\ ~cam_ctl
    /\ ret = 0

\* C11 End-to-end suppress-then-release: with ZoomTarget 1.0, no permission
\* and held true, a call that proposes 1.3 leaves the pose zoom at 1.0,
\* returns 1, keeps held and clears the deadline; the call that follows it
\* (only draw_cb and the clock in between) and proposes 1.0 finds no
\* permission, returns 0, clears held and leaves ZoomTarget at 1.0.
C11_SuppressThenRelease ==
    /\ (FrameCall /\ NoPermission /\ last.pre.cam_ctl
            /\ last.pre.zoom_tgt = 10 /\ last.camera.zoom = 13)
         => /\ pose.zoom = 10
            /\ ret = 1
            /\ cam_ctl
            /\ allow_zoom_t = 0
            /\ hist.over = 13
    /\ (FrameCall /\ last.pre.over = 13 /\ last.pre.zoom_tgt = 10
            /\ last.camera.zoom = 10)
         => /\ NoPermission
            /\ ret = 0
            /\ ~cam_ctl
            /\ zoom_tgt = 10

\* the second call of the scenario, a tick after the first
C11_Witness ==
    /\ FrameCall
    /\ last.pre.over = 13
    /\ last.pre.zoom_tgt = 10
    /\ last.camera.zoom = 10
    /\ now > 0
    /\ ret = 0
    /\ ~cam_ctl
    /\ zoom_tgt = 10

\* the last command event was a quick-look at hist.t, holdActive is false
\* and this frame call, d later, proposes a changed zoom
QuickLookThen(d) ==
    /\ FrameCall
    /\ hist.kind = "ql"
    /\ ~last.pre.allow_zoom
    /\ now = hist.t + d
    /\ last.camera.zoom # last.pre.zoom_tgt

\* C12 End-to-end quick-look window: with holdActive false and no command
\* event after a quick-look at t0, a call at t0 + 1000 ms with a changed
\* zoom z1 is learned (ZoomTarget z1, pose as proposed) and a call at
\* t0 + 1300 ms with a changed zoom is overridden and authority retained;
\* the pose then gets z1 when the call at t0 + 1000 ms was the last to learn.
C12_QuickLookWindow ==
    /\ QuickLookThen(1000000)
         => /\ zoom_tgt = last.camera.zoom
            /\ pose = last.camera
            /\ ret = 0
            /\ hist.lt = now
            /\ hist.lz = last.camera.zoom
    /\ QuickLookThen(1300000)
         => /\ ret = 1
            /\ cam_ctl
            /\ pose.zoom = last.pre.zoom_tgt
            /\ zoom_tgt = last.pre.zoom_tgt
            /\ hist.lt = hist.t + 1000000 => pose.zoom = hist.lz

\* z2 overridden with the z1 learned 300 ms earlier
C12_Witness ==
    /\ QuickLookThen(1300000)
    /\ hist.lt = hist.t + 1000000
    /\ hist.lz # InitZoom
    /\ last.camera.zoom # hist.lz
    /\ pose.zoom = hist.lz
    /\ ret = 1

\* the last command event was the release of allow_zoom_hold, at hist.t,
\* and this frame call proposes a changed zoom
AfterRelease ==
    /\ FrameCall
    /\ hist.kind = "release"
    /\ last.camera.zoom # last.pre.zoom_tgt

Overridden ==
    /\ pose.zoom = last.pre.zoom_tgt
    /\ zoom_tgt = last.pre.zoom_tgt
    /\ ret = 1

\* C13 as stated: every zoom change proposed after the release of
\* allow_zoom_hold, with no later command event, is overridden.
C13_ReinhibitAtRelease == AfterRelease => Overridden

\* C13 Re-inhibit after hold release, amended: a zoom change proposed
\* 500 ms or more after the release of allow_zoom_hold, with no later
\* command event, is overridden back to ZoomTarget; one proposed earlier
\* than that is learned.
C13_ReinhibitAfterGrace ==
    AfterRelease
    => IF now >= hist.t + 500000
       THEN Overridden
       ELSE zoom_tgt = last.camera.zoom /\ ret = 0

\* a zoom change exactly 500 ms after the release, overridden
C13_Witness ==
    /\ AfterRelease
    /\ now = hist.t + 500000
    /\ last.pre.allow_zoom_t = now
    /\ Overridden

\* C14 Native zoom and quick-look stay fully functional: a zoom change
\* proposed before the end of the grace of a zoom command (550 ms) or of a
\* quick-look command (1250 ms) is learned, never overridden, whatever
\* other events and frames came in between.
C14_WindowHonoured ==
    (FrameCall /\ now < hist.until /\ last.camera.zoom # last.pre.zoom_tgt)
    => /\ zoom_tgt = last.camera.zoom
       /\ pose = last.camera
       /\ ret = 0

\* C15 Disable leaks no registration: after XPluginDisable nothing the
\* plugin installed is registered with the host any more: not the draw
\* callback, the command bindings or the two command handlers, and not the
\* camera control callback that draw_cb installed.
C15_DisableLeaksNothing ==
    last.op = "XPluginDisable"
    => /\ hooks = {}
       /\ ~installed

\* a creation failed in the enable that last ran
CreationFailed ==
    /\ plugin # "disabled"
    /\ (cmds.allow_zoom_hold = NULL \/ cmds.allow_zoom_tog = NULL)

C17_FreshStateAtEnable ==
    (last.op = "XPluginEnable" /\ plugin = "enabled")
    => /\ ~cam_ctl
       /\ zoom_tgt = InitZoom
       /\ ~allow_zoom
       /\ allow_zoom_t = 0

\* the handlers of the action events: hold, toggle, zoom and quick-look
EventHandlers == {"allow_zoom_cb", "zoom_cmd_cb", "quick_look_cmd_cb"}

\* C18 AuthorityState writers: in every step held goes from false to true
\* only in draw_cb and from true to false only in cam_ctl_cb, and no step
\* of an action-event handler changes held.
C18_HeldWriters ==
    [][/\ (~cam_ctl /\ cam_ctl') => last'.op = "draw_cb"
       /\ (cam_ctl /\ ~cam_ctl') => last'.op = "cam_ctl_cb"
       /\ (last' # last /\ last'.op \in EventHandlers) => cam_ctl' = cam_ctl
      ]_vars

\* a zoom command was delivered while the camera was held, and it still is
C18_Witness ==
    /\ last.op = "zoom_cmd_cb"
    /\ last.pre.cam_ctl
    /\ cam_ctl
    /\ installed

\* what ZoomTarget may be: the initial 1.0 or a zoom the host proposed in
\* a frame call that found permission granted
Learnable == {InitZoom} \cup hist.learned

\* C19 ZoomTarget is written only while learning: ZoomTarget changes only
\* in a frame call of cam_ctl_cb that finds permission granted, and then to
\* the zoom the host proposed; so ZoomTarget, and every zoom the callback
\* writes over the proposed one, is always the initial 1.0 or a zoom
\* proposed in a permitted frame.
C19_LearnOnlyWhenPermitted ==
    /\ [](/\ zoom_tgt \in Learnable
          /\ (FrameCall /\ pose.zoom # last.camera.zoom)
             => pose.zoom \in Learnable)
    /\ [][zoom_tgt' # zoom_tgt
          => /\ last'.op = "cam_ctl_cb"
             /\ ~last'.losing_ctl
             /\ (allow_zoom \/ (allow_zoom_t # 0 /\ now < allow_zoom_t))
             /\ zoom_tgt' = last'.camera.zoom
         ]_vars

\* ZoomTarget was learned away from 1.0 and a later frame without
\* permission wrote it over a different proposed zoom
C19_Witness ==
    /\ FrameCall
    /\ NoPermission
    /\ zoom_tgt = 13
    /\ hist.learned = {13}
    /\ last.camera.zoom = 7
    /\ pose.zoom = 13

\* C20 Events only extend the window: after every action event the
\* deadline is no earlier than it was before the event.
C20_EventsOnlyExtend ==
    last.op \in EventHandlers => allow_zoom_t >= last.pre.allow_zoom_t

\* C21 Toggle state persists until toggled again: once a begin of
\* allow_zoom_toggle has enabled zooming, every frame call up to the next
\* begin of allow_zoom_toggle finds permission granted: it learns the
\* proposed zoom, leaves the pose alone and returns 0, whatever hold, zoom
\* and quick-look events came in between.
C21_TogglePersists ==
    (FrameCall /\ hist.tog)
    => /\ Granted
       /\ zoom_tgt = last.camera.zoom
       /\ pose = last.camera
       /\ ret = 0

\* C22 Authority is given up whenever there is nothing to suppress: a frame
\* call returns 1 only when it wrote ZoomTarget over a different proposed
\* zoom, and every frame call that finds permission granted returns 0 and
\* clears held, also when the proposed zoom differs from ZoomTarget.
C22_ReleaseUnlessSuppressing ==
    FrameCall
    => /\ ret = 1 => /\ pose.zoom # last.camera.zoom
                     /\ pose.zoom = last.pre.zoom_tgt
                     /\ cam_ctl
       /\ Granted => /\ ret = 0
                     /\ ~cam_ctl
                     /\ ~installed

\* a learning call that was handed a zoom other than ZoomTarget while the
\* camera was held, and gave the camera back
C22_Witness ==
    /\ FrameCall
    /\ Granted
    /\ last.pre.cam_ctl
    /\ last.camera.zoom = 13
    /\ last.pre.zoom_tgt = 7
    /\ ret = 0
    /\ ~cam_ctl

\* what the claims about equivalent runs compare: the return value, held,
\* ZoomTarget, holdActive, the deadline and the zoom of the pose
Observables(st) ==
    <<st.ret, st.cam_ctl, st.zoom_tgt, st.allow_zoom, st.allow_zoom_t,
      st.pose.zoom>>

\* the run st has the statics of the program and, after a camera callback,
\* its return value and its pose
IsTheProgram(st) ==
    /\ st.allow_zoom = allow_zoom
    /\ st.allow_zoom_t = allow_zoom_t
    /\ st.cam_ctl = cam_ctl
    /\ st.zoom_tgt = zoom_tgt
    /\ last.op = "cam_ctl_cb" => (st.ret = ret /\ st.pose = pose)

\* C23 The three source variants implement the same arbitration state
\* machine: run side by side on the same frames, events and clock, the
\* three variants always have equal return values, held, ZoomTarget,
\* holdActive, deadline and pose zoom; their poses differ at most after an
\* override, where variants 2 and 3 change the zoom only, and then not at
\* all when the frame interval is 0.
C23_VariantsAgree ==
    /\ IsTheProgram(hist.sh[variant])
    /\ \A v, w \in Variants :
          Observables(hist.sh[v]) = Observables(hist.sh[w])
    /\ hist.sh[2].pose = hist.sh[3].pose
    /\ IF FrameCall /\ ret = 1
       THEN /\ hist.sh[2].pose
                 = [last.camera EXCEPT !.zoom = last.pre.zoom_tgt]
            /\ last.drs.frame_intval = 0
               => hist.sh[1].pose = hist.sh[2].pose
       ELSE hist.sh[1].pose = hist.sh[2].pose

\* an override in which the extended variant moved the camera and the
\* other two did not, all three writing the same zoom
C23_Witness ==
    /\ hist.mode = "variants"
    /\ FrameCall
    /\ ret = 1
    /\ last.drs.frame_intval # 0
    /\ hist.sh[1].pose.x # hist.sh[2].pose.x
    /\ hist.sh[1].pose.zoom = last.pre.zoom_tgt
    /\ hist.sh[3].pose.zoom = last.pre.zoom_tgt
    /\ last.camera.zoom # last.pre.zoom_tgt

\* C24 held mirrors the host's installation state: with a host that keeps
\* the camera callback installed exactly while it returns 1 and calls it
\* with losing_ctl before removing it, held is true in exactly the states
\* in which the callback is installed; so draw_cb calls XPLMControlCamera
\* exactly when the view is internal and nothing is installed.
C24_HeldMirrorsInstalled ==
    /\ cam_ctl <=> installed
    /\ last.op = "draw_cb"
       => /\ last.pre.cam_ctl <=> last.pre.installed
          /\ (ctl_call # 0) <=> (~last.view /\ ~last.pre.installed)
          /\ ~last.view => installed

\* draw_cb installed the callback again after a frame call had released
\* the camera
C24_Witness ==
    /\ last.op = "draw_cb"
    /\ ~last.pre.cam_ctl
    /\ ~last.pre.installed
    /\ last.pre.zoom_tgt # InitZoom
    /\ ctl_call = xplm_ControlCameraUntilViewChanges
    /\ cam_ctl
    /\ installed

\* the run of the variant at hand, carried along without the
\* allow_zoom_t = 0 of the inhibit branch
NoClearRun == hist.sh[variant]

\* C25 Clearing the deadline on override is observationally redundant: a
\* run of the program without allow_zoom_t = 0 in the inhibit branch, on
\* the same frames, events and clock, always decides permission the same
\* way and has the same return values, held, ZoomTarget, holdActive and
\* pose as the program.
C25_ClearingIsRedundant ==
    /\ (allow_zoom \/ (allow_zoom_t # 0 /\ now < allow_zoom_t))
       <=> (NoClearRun.allow_zoom
              \/ (NoClearRun.allow_zoom_t # 0
                    /\ now < NoClearRun.allow_zoom_t))
    /\ NoClearRun.allow_zoom = allow_zoom
    /\ NoClearRun.cam_ctl = cam_ctl
    /\ NoClearRun.zoom_tgt = zoom_tgt
    /\ last.op = "cam_ctl_cb"
       => /\ NoClearRun.ret = ret
          /\ NoClearRun.pose = pose

\* an override by a call that found the deadline cleared by an earlier
\* override, while the run without the clearing still carries it
C25_Witness ==
    /\ hist.mode = "noclear"
    /\ FrameCall
    /\ ret = 1
    /\ last.pre.allow_zoom_t = 0
    /\ NoClearRun.allow_zoom_t # 0
    /\ NoClearRun.ret = 1
    /\ pose.zoom = last.pre.zoom_tgt

\* C26 Continuous arbitration in internal view: when every frame runs the
\* camera callback, if installed, and then draw_cb, and the view stays
\* internal, then from the first frame on held is true and the callback
\* installed at the end of every frame, the callback has run in every
\* later frame, and a frame call that finds no permission and a zoom
\* other than ZoomTarget writes ZoomTarget over it and returns 1.
C26_ContinuousArbitration ==
    hist.frames >= 1
    => /\ hist.phase = "cam" => (cam_ctl /\ installed)
       /\ hist.phase = "draw"
          => /\ hist.ran
             /\ last.op = "cam_ctl_cb"
             /\ (NoPermission /\ last.camera.zoom # last.pre.zoom_tgt)
                => (pose.zoom = last.pre.zoom_tgt /\ ret = 1)

\* in the third frame or later the callback overrides a zoom change that
\* comes after an earlier frame had learned a zoom other than 1.0
C26_Witness ==
    /\ hist.frames = MaxFrames
    /\ hist.phase = "draw"
    /\ hist.ran
    /\ NoPermission
    /\ last.pre.zoom_tgt = 13
    /\ last.camera.zoom = 7
    /\ pose.zoom = 13
    /\ ret = 1

====
